---- MODULE Spec2Model ----
(***************************************************************************)
(* Model of the gRPC runner of vscode-runme (src/src/extension/runner.ts,  *)
(* the version that starts at line 350): GrpcRunner, the program sessions  *)
(* it creates (one duplex Execute stream each) and its environments (one   *)
(* daemon session each).                                                   *)
(*                                                                         *)
(* An optional value (a TypeScript `x | undefined`) is a sequence of       *)
(* length at most one: <<>> is undefined, <<v>> is v.  A UInt32Value       *)
(* wrapper {value: n} is <<n>>, so that a present exit code 0 is not the   *)
(* absent one.  Byte strings and character strings are sequences of        *)
(* numbers (bytes, code points).                                           *)
(***************************************************************************)
EXTENDS Integers, Sequences, FiniteSets, TLC

\* ---------------------------------------------------------------- bounds
\* Program sessions constructed, environments created, and calls and remote
\* signals (messages, completion, stream errors, reclamations) in one run.
\* Answers to calls already made are not counted.
MaxSessions == 2
MaxEnvs == 1
MaxOps == 3

Sessions == 1..MaxSessions
Envs == 1..MaxEnvs

VARIABLES
  ps,        \* ps[s]: the fields of program session s
  remote,    \* remote[s]: what the remote end of s's stream has signalled
  log,       \* log[s]: what happened on s, in order: messages received,
             \*   events fired, requests.send and requests.complete calls
  env,       \* env[e]: environment object e
  children,  \* GrpcRunner.children, in registration order
  closes,    \* number of transport.close() calls
  streams,   \* number of client.execute() calls
  daemon,    \* the daemon: ids of its sessions and the ids it has handed out
  delUser,   \* delUser[e]: DeleteSession calls of e.dispose() made by callers, unanswered
  rd,        \* the GrpcRunner.dispose() call in flight
  lastOp,    \* the last call or callback and how it ended
  ops,       \* number of calls and remote signals so far
  kernel     \* the Kernel: its _executeAll and the cell it is executing

vars == <<ps, remote, log, env, children, closes, streams, daemon, delUser,
          rd, lastOp, ops, kernel>>

\* ------------------------------------------------------------ data
None == <<>>
Some(x) == <<x>>

PsChild(s) == [t |-> "ps", i |-> s]
EnvChild(e) == [t |-> "env", i |-> e]

\* An environment that is no GrpcRunnerEnvironment (another IRunnerEnvironment).
ForeignEnvironment == [impl |-> "foreign", e |-> 0]
GrpcEnvironment(e) == [impl |-> "grpc", e |-> e]

\* RunProgramOptions
BaseOpts ==
  [programName |-> "sh", args |-> None, cwd |-> Some("/w"),
   envs |-> Some(<<"RUNME_ID=1">>),
   script |-> Some([type |-> "script", script |-> "echo hi", commands |-> <<>>]),
   tty |-> Some(FALSE), background |-> None, environment |-> None]

\* The run options the callers of this model pass.
OptsChoices ==
  { BaseOpts,
    [BaseOpts EXCEPT !.tty = Some(TRUE)],
    [BaseOpts EXCEPT !.environment = Some(ForeignEnvironment)] }
  \cup { [BaseOpts EXCEPT !.environment = Some(GrpcEnvironment(e)), !.cwd = None] :
           e \in {x \in Envs : env[x].state = "live"} }

\* ExecuteResponse: stdout_data, stderr_data, optional exit_code
Payloads == { <<>>, <<104, 105>> }
ExitCodes == { None, Some(0), Some(1) }
Responses == [stdoutData : Payloads, stderrData : Payloads, exitCode : ExitCodes]

\* handleInput's data, as code points
Inputs == { <<97>>, <<233>> }

\* Buffer.from(data).toString('utf-8'): a byte below 128 is its character,
\* a byte that starts no valid sequence is U+FFFD.
Utf8Decode(bytes) == [i \in DOMAIN bytes |-> IF bytes[i] < 128 THEN bytes[i] ELSE 65533]

RECURSIVE Utf8Encode(_)
\* Buffer.from(data, 'utf-8'): one byte below 128, two bytes below 2048.
Utf8Encode(str) ==
  IF str = <<>> THEN <<>>
  ELSE LET c == Head(str)
       IN (IF c < 128 THEN <<c>>
           ELSE <<192 + (c \div 64), 128 + (c % 64)>>) \o Utf8Encode(Tail(str))

\* ------------------------------------------------- GrpcRunnerEnvironment
getSessionId(e) == env[e].id

\* ------------------------------------------------- GrpcRunnerProgramSession
\* The fields after `new GrpcRunnerProgramSession(client, opts)` has set them.
NewSession(opts) ==
  [state |-> "live", opts |-> opts, initialized |-> FALSE,
   exitCode |-> None, isDisposed |-> FALSE]

AbsentSession ==
  [state |-> "absent", opts |-> None, initialized |-> FALSE,
   exitCode |-> None, isDisposed |-> FALSE]

\* A session with its log: what the methods below read and change.
\* err is the error the call threw ("" when it returned).
Bundle(p, l) == [p |-> p, l |-> l, err |-> ""]

Fire(kind, data) == [k |-> kind, d |-> data]

WrongEnvironment(o) ==
  o.environment # None /\ o.environment[1].impl # "grpc"

\* runOptionsToExecuteRequest that sets script for either variant of the body
runOptionsToExecuteRequest_ScriptAlways(o) ==
  [arguments |-> o.args,
   envs |-> o.envs,
   background |-> o.background,
   directory |-> o.cwd,
   tty |-> o.tty,
   sessionId |-> IF o.environment = None THEN None
                 ELSE Some(getSessionId(o.environment[1].e)),
   programName |-> o.programName,
   commands |-> IF o.script # None /\ o.script[1].type = "commands"
                THEN Some(o.script[1].commands) ELSE None,
   script |-> IF o.script # None THEN Some(o.script[1].script) ELSE None]

\* static runOptionsToExecuteRequest, when it does not throw
runOptionsToExecuteRequest(o) ==
  [arguments |-> o.args,
   envs |-> o.envs,
   background |-> o.background,
   directory |-> o.cwd,
   tty |-> o.tty,
   sessionId |-> IF o.environment = None THEN None
                 ELSE Some(getSessionId(o.environment[1].e)),
   programName |-> o.programName,
   commands |-> IF o.script # None /\ o.script[1].type = "commands"
                THEN Some(o.script[1].commands) ELSE None,
   script |-> IF o.script # None /\ o.script[1].type = "script"
              THEN Some(o.script[1].script) ELSE None]

\* init(opts) that marks the session initialized before it looks for run options
init_MarksFirst(b, opts) ==
  IF opts = None /\ b.p.opts = None
  THEN [b EXCEPT !.p.initialized = TRUE, !.err = "NoRunOptions"]
  ELSE IF b.p.initialized THEN [b EXCEPT !.err = "AlreadyInitialized"]
  ELSE LET o == IF b.p.opts # None THEN b.p.opts ELSE opts
           p1 == [b.p EXCEPT !.opts = o, !.initialized = TRUE]
       IN IF WrongEnvironment(o[1])
          THEN [p |-> p1, l |-> b.l, err |-> "WrongEnvironment"]
          ELSE [p |-> p1,
                l |-> Append(b.l, [k |-> "execute", d |-> runOptionsToExecuteRequest(o[1])]),
                err |-> ""]

\* init(opts)
init(b, opts) ==
  IF opts = None /\ b.p.opts = None THEN [b EXCEPT !.err = "NoRunOptions"]
  ELSE IF b.p.initialized THEN [b EXCEPT !.err = "AlreadyInitialized"]
  ELSE LET o == IF b.p.opts # None THEN b.p.opts ELSE opts
           p1 == [b.p EXCEPT !.opts = o, !.initialized = TRUE]
       IN IF WrongEnvironment(o[1])
          THEN [p |-> p1, l |-> b.l, err |-> "WrongEnvironment"]
          ELSE [p |-> p1,
                l |-> Append(b.l, [k |-> "execute", d |-> runOptionsToExecuteRequest(o[1])]),
                err |-> ""]

\* hasExited()
hasExited(p) == p.exitCode # None \/ p.isDisposed

\* sendRawInput(data) that puts the message in front of those already sent
sendRawInput_Prepends(b, data) ==
  [b EXCEPT !.l = <<[k |-> "input", d |-> Utf8Encode(data)]>> \o b.l]

\* sendRawInput(data)
sendRawInput(b, data) ==
  [b EXCEPT !.l = Append(b.l, [k |-> "input", d |-> Utf8Encode(data)])]

\* handleInput(data)
handleInput(b, data) ==
  IF hasExited(b.p) THEN [b EXCEPT !.err = "SessionClosed"]
  ELSE sendRawInput(b, data)

\* dispose(endSession) that half-closes whatever endSession is
DisposeCompletes_IgnoresEndSession(p, endSession) == ~p.isDisposed

\* dispose(endSession): whether it calls requests.complete()
DisposeCompletes(p, endSession) == ~p.isDisposed /\ endSession

\* dispose(endSession)
dispose(b, endSession) ==
  IF DisposeCompletes(b.p, endSession)
  THEN [b EXCEPT !.l = Append(b.l, [k |-> "complete", d |-> <<>>])]
  ELSE b

\* close(code) that disposes before it fires the close event
close_DisposesFirst(b, code) ==
  LET disposed == dispose(b, TRUE)
      fired == [disposed EXCEPT !.l = Append(disposed.l, Fire("close", code))]
  IN [fired EXCEPT !.p.exitCode = code]

\* close(code)
close(b, code) ==
  LET fired == [b EXCEPT !.l = Append(b.l, Fire("close", code))]
      set == [fired EXCEPT !.p.exitCode = code]
  IN dispose(set, TRUE)

\* _onStdoutRaw.fire(data) with no listener registered on it
fireStdoutRaw_NoListener(b, data) ==
  [b EXCEPT !.l = Append(b.l, Fire("stdoutRaw", data))]

\* _onStdoutRaw.fire(data), with the listener the constructor registers on it
fireStdoutRaw(b, data) ==
  [b EXCEPT !.l = b.l \o <<Fire("stdoutRaw", data), Fire("didWrite", Utf8Decode(data))>>]

\* _onStderrRaw.fire(data), with the listener the constructor registers on it
fireStderrRaw(b, data) ==
  [b EXCEPT !.l = b.l \o <<Fire("stderrRaw", data), Fire("didErr", Utf8Decode(data))>>]

\* onMessage without the length checks: it fires for empty payloads too
onMessage_FiresEmpty(b, msg) ==
  LET b0 == [b EXCEPT !.l = Append(b.l, [k |-> "recv", d |-> msg])]
      b2 == fireStderrRaw(fireStdoutRaw(b0, msg.stdoutData), msg.stderrData)
  IN IF msg.exitCode # None THEN close(b2, msg.exitCode) ELSE b2

\* onMessage that tests the exit code's value, so that exit code 0 is no exit
onMessage_ZeroIsNoExit(b, msg) ==
  LET b0 == [b EXCEPT !.l = Append(b.l, [k |-> "recv", d |-> msg])]
      b1 == IF Len(msg.stdoutData) > 0 THEN fireStdoutRaw(b0, msg.stdoutData) ELSE b0
      b2 == IF Len(msg.stderrData) > 0 THEN fireStderrRaw(b1, msg.stderrData) ELSE b1
  IN IF msg.exitCode # None /\ msg.exitCode # Some(0) THEN close(b2, msg.exitCode) ELSE b2

\* the responses.onMessage callback
onMessage(b, msg) ==
  LET b0 == [b EXCEPT !.l = Append(b.l, [k |-> "recv", d |-> msg])]
      b1 == IF Len(msg.stdoutData) > 0 THEN fireStdoutRaw(b0, msg.stdoutData) ELSE b0
      b2 == IF Len(msg.stderrData) > 0 THEN fireStderrRaw(b1, msg.stderrData) ELSE b1
  IN IF msg.exitCode # None THEN close(b2, msg.exitCode) ELSE b2


\* ------------------------------------------------------------ the system
\* No Kernel uses the runner.
NoKernel == [pc |-> "none"]

Runner == [t |-> "runner", i |-> 0]
Range(f) == { f[x] : x \in DOMAIN f }

Init ==
  /\ ps = [s \in Sessions |-> AbsentSession]
  /\ remote = [s \in Sessions |-> "none"]
  /\ log = [s \in Sessions |-> <<>>]
  /\ env = [e \in Envs |-> [state |-> "absent", id |-> 0]]
  /\ children = <<>>
  /\ closes = 0
  /\ streams = 0
  /\ daemon = [sessions |-> {}, nextId |-> 1]
  /\ delUser = [e \in Envs |-> 0]
  /\ rd = [pc |-> "idle", waiting |-> {}]
  /\ lastOp = [op |-> "new GrpcRunner", on |-> Runner, res |-> ""]
  /\ ops = 0
  /\ kernel = NoKernel

\* One more call or remote signal, and how it ended.
Did(op, on, res) ==
  /\ ops < MaxOps
  /\ ops' = ops + 1
  /\ lastOp' = [op |-> op, on |-> on, res |-> res]

\* A continuation of a call already made.
Then(op, on, res) ==
  /\ ops' = ops
  /\ lastOp' = [op |-> op, on |-> on, res |-> res]

\* The slot of the next session object, and of the next environment object.
FreeSession(s) == ps[s].state = "absent" /\ \A x \in Sessions : x < s => ps[x].state # "absent"
FreeEnv(e) == env[e].state = "absent" /\ \A x \in Envs : x < e => env[x].state # "absent"

Live(s) == ps[s].state = "live"

\* registerChild(d) that pushes nothing
registerChild_Nothing(c) == children' = children

\* registerChild(d)
registerChild(c) == children' = Append(children, c)

\* transport.close()
TransportClose == closes' = closes + 1

\* A method of session s that writes its fields into every session
Put_All(s, b) ==
  /\ ps' = [t \in Sessions |-> IF ps[t].state = "absent" /\ t # s THEN ps[t] ELSE b.p]
  /\ log' = [log EXCEPT ![s] = b.l]

\* Store what a method of session s left behind.
Put(s, b) ==
  /\ ps' = [ps EXCEPT ![s] = b.p]
  /\ log' = [log EXCEPT ![s] = b.l]

\* The constructor, calling init() for a tty spec as well
Constructed_InitsTty(opts) ==
  LET b == Bundle(NewSession(opts), <<>>)
  IN IF opts # None THEN init(b, None) ELSE b

\* this.session = client.execute(), opening a second stream as well
OpenStream_Twice == streams' = streams + 2

\* this.session = client.execute(): the constructor opens the session's stream
OpenStream == streams' = streams + 1

\* The constructor: client.execute(), the callbacks, and init() for a
\* spec that is no tty.
Constructed(opts) ==
  LET b == Bundle(NewSession(opts), <<>>)
  IN IF opts # None /\ opts[1].tty \notin {Some(TRUE)} THEN init(b, None) ELSE b

\* GrpcRunner.createProgramSession()
CreateProgramSession ==
  \E s \in Sessions :
    /\ FreeSession(s)
    /\ Did("createProgramSession", PsChild(s), "")
    /\ OpenStream
    /\ Put(s, Constructed(None))
    /\ remote' = [remote EXCEPT ![s] = "open"]
    /\ registerChild(PsChild(s))
    /\ UNCHANGED <<env, closes, daemon, delUser, rd, kernel>>

\* new GrpcRunnerProgramSession(client, opts), by a caller that holds the client
ConstructSession ==
  \E s \in Sessions, o \in OptsChoices :
    LET b == Constructed(Some(o))
    IN /\ FreeSession(s)
       /\ Did("new GrpcRunnerProgramSession", PsChild(s), b.err)
       /\ OpenStream
       /\ IF b.err = ""
          THEN Put(s, b) /\ remote' = [remote EXCEPT ![s] = "open"]
          ELSE UNCHANGED <<ps, log, remote>>
       /\ UNCHANGED <<env, children, closes, daemon, delUser, rd, kernel>>

\* run(opts)
Run ==
  \E s \in Sessions, opts \in {None} \cup { Some(o) : o \in OptsChoices } :
    LET b == init(Bundle(ps[s], log[s]), opts)
    IN /\ Live(s)
       /\ Did("run", PsChild(s), b.err)
       /\ Put(s, b)
       /\ UNCHANGED <<remote, env, children, closes, streams, daemon, delUser, rd, kernel>>

\* open(initialDimensions)
Open ==
  \E s \in Sessions :
    /\ Live(s)
    /\ Did("open", PsChild(s), "")
    /\ UNCHANGED <<ps, log, remote, env, children, closes, streams, daemon, delUser, rd, kernel>>

\* handleInput(data)
HandleInput ==
  \E s \in Sessions, data \in Inputs :
    LET b == handleInput(Bundle(ps[s], log[s]), data)
    IN /\ Live(s)
       /\ Did("handleInput", PsChild(s), b.err)
       /\ Put(s, b)
       /\ UNCHANGED <<remote, env, children, closes, streams, daemon, delUser, rd, kernel>>

\* close(), called locally: no code
Close ==
  \E s \in Sessions :
    /\ Live(s)
    /\ Did("close", PsChild(s), "")
    /\ Put(s, close(Bundle(ps[s], log[s]), None))
    /\ UNCHANGED <<remote, env, children, closes, streams, daemon, delUser, rd, kernel>>

\* dispose(endSession), called locally
Dispose ==
  \E s \in Sessions, endSession \in BOOLEAN :
    /\ Live(s)
    /\ Did(IF endSession THEN "dispose" ELSE "dispose(false)", PsChild(s), "")
    /\ Put(s, dispose(Bundle(ps[s], log[s]), endSession))
    /\ UNCHANGED <<remote, env, children, closes, streams, daemon, delUser, rd, kernel>>

\* The remote sends a response on the stream: responses.onMessage
OnMessage ==
  \E s \in Sessions, msg \in Responses :
    /\ Live(s)
    /\ remote[s] = "open"
    /\ Did("onMessage", PsChild(s), "")
    /\ Put(s, onMessage(Bundle(ps[s], log[s]), msg))
    /\ UNCHANGED <<remote, env, children, closes, streams, daemon, delUser, rd, kernel>>

\* The remote completes the stream: responses.onComplete
OnComplete ==
  \E s \in Sessions :
    /\ Live(s)
    /\ remote[s] = "open"
    /\ Did("onComplete", PsChild(s), "")
    /\ Put(s, dispose(Bundle(ps[s], log[s]), FALSE))
    /\ remote' = [remote EXCEPT ![s] = "completed"]
    /\ UNCHANGED <<env, children, closes, streams, daemon, delUser, rd, kernel>>

\* The stream fails: responses.onError rethrows the reason
OnError ==
  \E s \in Sessions :
    /\ Live(s)
    /\ remote[s] = "open"
    /\ Did("onError", PsChild(s), "Unhandled")
    /\ remote' = [remote EXCEPT ![s] = "errored"]
    /\ UNCHANGED <<ps, log, env, children, closes, streams, daemon, delUser, rd, kernel>>


\* ------------------------------------------------- garbage collection
\* Environment e is referenced by the run options of a session that is alive.
Referenced(e) ==
  \E s \in Sessions :
    /\ Live(s)
    /\ ps[s].opts # None
    /\ ps[s].opts[1].environment = Some(GrpcEnvironment(e))

\* A child held only by the runner's WeakRef is reclaimed: deref() is undefined,
\* and nothing calls the object or its stream callbacks any more.
Reclaim ==
  \/ \E s \in Sessions :
       /\ Live(s)
       /\ Did("reclaim", PsChild(s), "")
       /\ ps' = [ps EXCEPT ![s].state = "reclaimed"]
       /\ UNCHANGED <<remote, log, env, children, closes, streams, daemon, delUser, rd, kernel>>
  \/ \E e \in Envs :
       /\ env[e].state = "live"
       /\ ~Referenced(e)
       /\ Did("reclaim", EnvChild(e), "")
       /\ env' = [env EXCEPT ![e].state = "reclaimed"]
       /\ UNCHANGED <<ps, remote, log, children, closes, streams, daemon, delUser, rd, kernel>>

\* ------------------------------------------------- the daemon
\* DeleteSession(id), as the daemon answers it: the session is deleted, or there
\* is no such session (or no channel to answer on) and the call is rejected.
DeleteOk(id) == closes = 0 /\ id \in daemon.sessions
DaemonDelete(id) == [daemon EXCEPT !.sessions = @ \ {id}]

\* ------------------------------------------------- GrpcRunner
\* createEnvironment(envs, metadata): client.createSession(request) is called;
\* when the call itself throws, the catch block closes the transport.
CreateEnvironment ==
  \E e \in Envs, syncThrow \in BOOLEAN :
    /\ FreeEnv(e)
    /\ Did("createEnvironment", EnvChild(e), IF syncThrow THEN "RpcError" ELSE "")
    /\ IF syncThrow
       THEN TransportClose /\ UNCHANGED env
       ELSE closes' = closes /\ env' = [env EXCEPT ![e].state = "creating"]
    /\ UNCHANGED <<ps, remote, log, children, streams, daemon, delUser, rd, kernel>>

\* The CreateSession response arrives: the .then callback of createEnvironment
CreateSessionResponse ==
  \E e \in Envs, answer \in {"session", "no session", "rejected"} :
    /\ env[e].state = "creating"
    /\ closes > 0 => answer = "rejected"
    /\ IF answer = "session"
       THEN /\ daemon' = [sessions |-> daemon.sessions \cup {daemon.nextId},
                          nextId |-> daemon.nextId + 1]
            /\ env' = [env EXCEPT ![e] = [state |-> "live", id |-> daemon.nextId]]
            /\ registerChild(EnvChild(e))
            /\ Then("createEnvironment", EnvChild(e), "ok")
       ELSE /\ env' = [env EXCEPT ![e].state = "absent"]
            /\ Then("createEnvironment", EnvChild(e),
                    IF answer = "no session" THEN "NoSession" ELSE "RpcError")
            /\ UNCHANGED <<daemon, children>>
    /\ UNCHANGED <<ps, remote, log, closes, streams, delUser, rd, kernel>>

\* GrpcRunner.close()
RunnerClose ==
  /\ Did("close", Runner, "")
  /\ TransportClose
  /\ UNCHANGED <<ps, remote, log, env, children, streams, daemon, delUser, rd, kernel>>

\* GrpcRunnerEnvironment.dispose(), called by a holder of the environment:
\* delete() issues DeleteSession
EnvDispose ==
  \E e \in Envs :
    /\ env[e].state = "live"
    /\ Did("dispose", EnvChild(e), "")
    /\ delUser' = [delUser EXCEPT ![e] = @ + 1]
    /\ UNCHANGED <<ps, remote, log, env, children, closes, streams, daemon, rd, kernel>>

\* The answer to a DeleteSession a holder of the environment issued
DeleteResponse ==
  \E e \in Envs :
    /\ delUser[e] > 0
    /\ delUser' = [delUser EXCEPT ![e] = @ - 1]
    /\ IF DeleteOk(env[e].id)
       THEN daemon' = DaemonDelete(env[e].id) /\ Then("dispose", EnvChild(e), "ok")
       ELSE UNCHANGED daemon /\ Then("dispose", EnvChild(e), "RpcError")
    /\ UNCHANGED <<ps, remote, log, env, children, closes, streams, rd, kernel>>

\* c.deref() that still yields a child that was reclaimed
Deref_Always(c) == TRUE

\* c.deref(): the child, unless it was reclaimed
Deref(c) ==
  IF c.t = "ps" THEN ps[c.i].state = "live" ELSE env[c.i].state = "live"

\* The promises GrpcRunner.dispose() waits for: c.deref()?.dispose() of a child
\* that is still there and whose dispose() awaits something.
DisposePromises ==
  { c \in Range(children) :
      /\ Deref(c)
      /\ c.t = "ps" => DisposeCompletes(ps[c.i], TRUE) }

\* GrpcRunner.dispose() that closes the transport without waiting for the promises
ClosesWith_NoWait(waiting) == TRUE

\* GrpcRunner.dispose() whose .then(() => this.close()) never runs
ClosesWith_Never(waiting) == FALSE

\* Whether GrpcRunner.dispose() closes the transport with these promises unsettled.
ClosesWith(waiting) == waiting = {}

\* GrpcRunner.dispose(): children.map(c => c.deref()?.dispose()) runs every
\* child's dispose() up to its first await; Promise.all(...).then(close).
\* One call is followed at a time; the DeleteSession calls an earlier, failed
\* call left unanswered stay with the daemon.
RunnerDispose ==
  /\ rd.pc # "awaiting"
  /\ log' = [s \in Sessions |->
               IF PsChild(s) \in Range(children) /\ Deref(PsChild(s))
               THEN dispose(Bundle(ps[s], log[s]), TRUE).l
               ELSE log[s]]
  /\ IF ClosesWith(DisposePromises)
     THEN /\ TransportClose
          /\ rd' = [pc |-> "done", waiting |-> DisposePromises]
          /\ Did("dispose", Runner, "ok")
     ELSE /\ closes' = closes
          /\ rd' = [pc |-> "awaiting", waiting |-> DisposePromises]
          /\ Did("dispose", Runner, "")
  /\ delUser' = [e \in Envs |-> delUser[e] + IF EnvChild(e) \in rd.waiting THEN 1 ELSE 0]
  /\ UNCHANGED <<ps, remote, env, children, streams, daemon, kernel>>

\* A promise of Promise.all is fulfilled: .then(() => this.close()) runs once
\* none is left.
Fulfilled(c) ==
  LET left == rd.waiting \ {c}
  IN IF rd.pc = "awaiting" /\ ClosesWith(left)
     THEN /\ TransportClose
          /\ rd' = [pc |-> "done", waiting |-> left]
          /\ Then("dispose", Runner, "ok")
     ELSE /\ closes' = closes
          /\ rd' = [rd EXCEPT !.waiting = left]
          /\ Then("settled", c, "ok")

\* A promise of Promise.all is rejected: GrpcRunner.dispose() rejects, and
\* nothing closes the transport.
Rejected(c) ==
  /\ closes' = closes
  /\ rd' = [pc |-> IF rd.pc = "awaiting" THEN "failed" ELSE rd.pc,
            waiting |-> rd.waiting \ {c}]
  /\ IF rd.pc = "awaiting"
     THEN Then("dispose", Runner, "RpcError")
     ELSE Then("settled", c, "RpcError")

\* The remote acknowledges the half-close GrpcRunner.dispose() sent on s
SettleSession ==
  \E s \in Sessions :
    /\ PsChild(s) \in rd.waiting
    /\ Fulfilled(PsChild(s))
    /\ UNCHANGED <<ps, remote, log, env, children, streams, daemon, delUser, kernel>>

\* The answer to the DeleteSession GrpcRunner.dispose() issued for e
SettleEnvironment ==
  \E e \in Envs :
    /\ EnvChild(e) \in rd.waiting
    /\ IF DeleteOk(env[e].id)
       THEN daemon' = DaemonDelete(env[e].id) /\ Fulfilled(EnvChild(e))
       ELSE UNCHANGED daemon /\ Rejected(EnvChild(e))
    /\ UNCHANGED <<ps, remote, log, env, children, streams, delUser, kernel>>

Next ==
  \/ CreateProgramSession
  \/ ConstructSession
  \/ Run
  \/ Open
  \/ HandleInput
  \/ Close
  \/ Dispose
  \/ OnMessage
  \/ OnComplete
  \/ OnError
  \/ Reclaim
  \/ CreateEnvironment
  \/ CreateSessionResponse
  \/ RunnerClose
  \/ EnvDispose
  \/ DeleteResponse
  \/ RunnerDispose
  \/ SettleSession
  \/ SettleEnvironment

Spec == Init /\ [][Next]_vars


\* ------------------------------------------------------------ reading the log
\* The entries of s's log whose kind is in K, in order.
Of(s, K) == SelectSeq(log[s], LAMBDA x : x.k \in K)
Count(s, k) == Len(Of(s, {k}))
CountAfter(s, k) == Len(SelectSeq(log'[s], LAMBDA x : x.k = k))

\* The entries that follow the message received at position i of s's log, up to
\* the next message received.
Segment(s, i) ==
  LET later == { j \in DOMAIN log[s] : j > i /\ log[s][j].k = "recv" }
      stop == IF later = {} THEN Len(log[s]) + 1
              ELSE CHOOSE j \in later : \A x \in later : j <= x
  IN SubSeq(log[s], i + 1, stop - 1)
Received(s) == { i \in DOMAIN log[s] : log[s][i].k = "recv" }
IsPrefix(a, b) == Len(a) <= Len(b) /\ SubSeq(b, 1, Len(a)) = a
RawKinds == {"stdoutRaw", "stderrRaw", "close"}
Raw(l) == SelectSeq(l, LAMBDA x : x.k \in RawKinds)

\* The session has been closed or disposed: close() or dispose() has sent the
\* half-close, a close event was raised, or the remote completed the stream.
Ended(s) ==
  \/ remote[s] = "completed"
  \/ \E i \in DOMAIN log[s] : log[s][i].k \in {"close", "complete"}

\* ------------------------------------------------------------ claims

\* C1: once exitCode has been set or the session has been disposed (dispose(),
\* close(), or the remote completing the stream), every later handleInput call
\* fails with an error and sends nothing on the stream.
C1_NoInputAfterEnd ==
  [][\A s \in Sessions :
       (Ended(s) /\ lastOp'.op = "handleInput" /\ lastOp'.on = PsChild(s))
         => (lastOp'.res = "SessionClosed" /\ log'[s] = log[s])]_vars

\* C2: a second initialization attempt fails with 'already initialized', and
\* exactly one execute request, that of the first initialization, has been sent.
C2_OneExecuteRequest ==
  \A s \in Sessions :
    (lastOp.on = PsChild(s) /\ lastOp.res = "AlreadyInitialized")
      => Count(s, "execute") = 1

\* C3: over any sequence of incoming messages and local close() calls, a session
\* raises the close event at most once.
C3_CloseFiresOnce == \A s \in Sessions : Count(s, "close") <= 1

\* C4: dispose(false), also when the stream-completion callback calls it, sends
\* no half-close, whatever the state of the session.
C4_DisposeFalseNoHalfClose ==
  [][\A s \in Sessions :
       (lastOp'.op \in {"dispose(false)", "onComplete"} /\ lastOp'.on = PsChild(s))
         => CountAfter(s, "complete") = Count(s, "complete")]_vars

\* C4 happens: the remote completed the stream of a running session, on which no
\* half-close has been sent.
C4_Witness ==
  \E s \in Sessions :
    /\ lastOp = [op |-> "onComplete", on |-> PsChild(s), res |-> ""]
    /\ ps[s].initialized
    /\ Count(s, "execute") = 1
    /\ Count(s, "complete") = 0

\* C5: once the remote has completed the stream of a session, nothing sends a
\* half-close on it any more.
C5_NoHalfCloseAfterCompletion ==
  [][\A s \in Sessions :
       remote[s] = "completed" => CountAfter(s, "complete") = Count(s, "complete")]_vars

\* C6: over any sequence of dispose() and close() calls on a session, the
\* half-close is sent at most once.
C6_HalfCloseAtMostOnce == \A s \in Sessions : Count(s, "complete") <= 1

\* C7: GrpcRunner.dispose() completes without an error, also when children have
\* been disposed on their own or reclaimed (stated for a channel nobody closed
\* before, where no call fails for want of a channel).
C7_RunnerDisposeSucceeds == closes = 0 => rd.pc # "failed"

\* C8: a GrpcRunner.dispose() call closes the channel only once every child
\* disposal it started has completed: when it has closed, none of its
\* DeleteSession calls or half-closes is unanswered.
C8_CloseAfterChildren == rd.pc = "done" => rd.waiting = {}

\* C8 happens: GrpcRunner.dispose() has closed the channel after the daemon
\* deleted an environment's session and a session's half-close was sent.
C8_Witness ==
  /\ rd.pc = "done"
  /\ closes = 1
  /\ \E e \in Envs :
       /\ EnvChild(e) \in Range(children)
       /\ env[e].state = "live"
       /\ env[e].id \notin daemon.sessions
  /\ \E s \in Sessions :
       /\ PsChild(s) \in Range(children)
       /\ Live(s)
       /\ Count(s, "complete") = 1

\* C9: a message raises no raw-stdout event for an empty stdout payload and
\* exactly one, carrying the bytes, for a non-empty one; the same for stderr.
C9_OneRawEventPerPayload ==
  \A s \in Sessions : \A i \in Received(s) :
    LET msg == log[s][i].d
        out == SelectSeq(Segment(s, i), LAMBDA x : x.k = "stdoutRaw")
        err == SelectSeq(Segment(s, i), LAMBDA x : x.k = "stderrRaw")
    IN /\ out = IF msg.stdoutData = <<>> THEN <<>>
                ELSE <<[k |-> "stdoutRaw", d |-> msg.stdoutData]>>
       /\ err = IF msg.stderrData = <<>> THEN <<>>
                ELSE <<[k |-> "stderrRaw", d |-> msg.stderrData]>>

\* C9 happens: a session has received a message with stdout only, and one with
\* neither payload.
C9_Witness ==
  \E s \in Sessions : \E i, j \in Received(s) :
    /\ log[s][i].d.stdoutData # <<>> /\ log[s][i].d.stderrData = <<>>
    /\ log[s][j].d.stdoutData = <<>> /\ log[s][j].d.stderrData = <<>>

\* The raw events C10 expects of one message: stdout, then stderr, then close.
C10_Expected(msg) ==
  (IF msg.stdoutData = <<>> THEN <<>> ELSE <<[k |-> "stdoutRaw", d |-> msg.stdoutData]>>)
  \o (IF msg.stderrData = <<>> THEN <<>> ELSE <<[k |-> "stderrRaw", d |-> msg.stderrData]>>)
  \o (IF msg.exitCode = <<>> THEN <<>> ELSE <<[k |-> "close", d |-> msg.exitCode]>>)

\* C10: events are raised in the order the messages arrive and, for one message,
\* stdout before stderr before close; a message with an exit code, 0 included,
\* raises a close event with that code.
C10_EventOrder ==
  \A s \in Sessions : \A i \in Received(s) :
    IsPrefix(C10_Expected(log[s][i].d), Raw(Segment(s, i)))

\* C10 happens: stdout 'hi', then exit code 0, gave onStdoutRaw('hi') and then
\* onDidClose(0).
C10_Witness ==
  \E s \in Sessions :
    /\ Of(s, {"recv"}) =
         << [k |-> "recv", d |-> [stdoutData |-> <<104, 105>>, stderrData |-> <<>>, exitCode |-> <<>>]],
            [k |-> "recv", d |-> [stdoutData |-> <<>>, stderrData |-> <<>>, exitCode |-> <<0>>]] >>
    /\ Raw(log[s]) = << [k |-> "stdoutRaw", d |-> <<104, 105>>], [k |-> "close", d |-> <<0>>] >>

\* ------------------------------------------------------------ C11
\* The messages of s that carried an exit code, by their position in the log.
ExitMessages(s) == { i \in Received(s) : log[s][i].d.exitCode # None }

\* C11: once a session has received an exit code c, its recorded exitCode is
\* c in every later state, whatever is called or received afterwards.
C11_ExitCodeKept ==
  \A s \in Sessions :
    ExitMessages(s) # {} =>
      LET first == CHOOSE i \in ExitMessages(s) : \A j \in ExitMessages(s) : i <= j
      IN ps[s].exitCode = log[s][first].d.exitCode

\* ------------------------------------------------------------ C12
\* C12: a createEnvironment whose CreateSession response carries no session
\* fails towards the caller, has closed the Channel and has registered no
\* Environment.
C12_NoSessionClosesChannel ==
  (lastOp.op = "createEnvironment" /\ lastOp.res = "NoSession") =>
    /\ closes > 0
    /\ lastOp.on \notin Range(children)

\* ------------------------------------------------------------ C13
\* The mapping of run options to the execute request, over a range of run
\* options: a runner with every environment created and one program session,
\* on which run(opts) is called.
ProgramNames == { "sh", "bash" }
ArgChoices == { None, Some(<<"-c">>) }
CwdChoices == { None, Some("/w") }
EnvsChoices == { None, Some(<<"RUNME_ID=1">>) }
ScriptChoices ==
  { None,
    Some([type |-> "script", script |-> "echo hi", commands |-> <<>>]),
    Some([type |-> "commands", script |-> "", commands |-> <<"echo hi", "ls">>]) }
TtyChoices == { None, Some(FALSE), Some(TRUE) }
BackgroundChoices == { None, Some(TRUE) }
EnvironmentChoices ==
  { None, Some(ForeignEnvironment) } \cup { Some(GrpcEnvironment(e)) : e \in Envs }

MapInputs ==
  [programName : ProgramNames, args : ArgChoices, cwd : CwdChoices,
   envs : EnvsChoices, script : ScriptChoices, tty : TtyChoices,
   background : BackgroundChoices, environment : EnvironmentChoices]

\* The first id the daemon hands to this runner.
FirstIds == { 1, 2 }

\* After createEnvironment() for every environment and createProgramSession().
MapInit ==
  \E first \in FirstIds :
    /\ ps = [s \in Sessions |-> IF s = 1 THEN NewSession(None) ELSE AbsentSession]
    /\ remote = [s \in Sessions |-> IF s = 1 THEN "open" ELSE "none"]
    /\ log = [s \in Sessions |-> <<>>]
    /\ env = [e \in Envs |-> [state |-> "live", id |-> first + e - 1]]
    /\ children = [i \in 1..MaxEnvs |-> EnvChild(i)] \o <<PsChild(1)>>
    /\ closes = 0
    /\ streams = 1
    /\ daemon = [sessions |-> { first + e - 1 : e \in Envs }, nextId |-> first + MaxEnvs]
    /\ delUser = [e \in Envs |-> 0]
    /\ rd = [pc |-> "idle", waiting |-> {}]
    /\ lastOp = [op |-> "createProgramSession", on |-> PsChild(1), res |-> ""]
    /\ ops = 0
    /\ kernel = NoKernel

\* run(opts), for any run options
MapRun ==
  \E s \in Sessions, o \in MapInputs :
    LET b == init(Bundle(ps[s], log[s]), Some(o))
    IN /\ Live(s)
       /\ Did("run", PsChild(s), b.err)
       /\ Put(s, b)
       /\ UNCHANGED <<remote, env, children, closes, streams, daemon, delUser, rd, kernel>>

MapNext == MapRun

SpecMap == MapInit /\ [][MapNext]_vars

\* C13: the execute request of a session carries programName, args, cwd,
\* envs, tty and background of its run options unchanged (cwd absent when
\* unset), the session id of the options' environment (absent without one),
\* commands exactly for a commands body and script exactly for a script body,
\* never both; run options with a gRPC environment or none are always mapped.
C13_RequestMapsSpec ==
  \A s \in Sessions :
    ps[s].initialized =>
      LET o == ps[s].opts[1]
          sent == Of(s, {"execute"})
      IN IF WrongEnvironment(o) THEN sent = <<>>
         ELSE /\ Len(sent) = 1
              /\ LET r == sent[1].d
                 IN /\ r.programName = o.programName
                    /\ r.arguments = o.args
                    /\ r.directory = o.cwd
                    /\ r.envs = o.envs
                    /\ r.tty = o.tty
                    /\ r.background = o.background
                    /\ r.sessionId = IF o.environment = None THEN None
                                     ELSE Some(env[o.environment[1].e].id)
                    /\ r.commands # None <=> (o.script # None /\ o.script[1].type = "commands")
                    /\ r.commands # None => r.commands = Some(o.script[1].commands)
                    /\ r.script # None <=> (o.script # None /\ o.script[1].type = "script")
                    /\ r.script # None => r.script = Some(o.script[1].script)
                    /\ ~(r.commands # None /\ r.script # None)

\* run() of a commands body in an environment has sent its request.
C13_Witness ==
  /\ lastOp = [op |-> "run", on |-> PsChild(1), res |-> ""]
  /\ ps[1].opts # None
  /\ ps[1].opts[1].environment = Some(GrpcEnvironment(1))
  /\ ps[1].opts[1].script # None
  /\ ps[1].opts[1].script[1].type = "commands"
  /\ ps[1].opts[1].cwd = None
  /\ Len(log[1]) = 1
  /\ log[1][1].k = "execute"
  /\ log[1][1].d.sessionId = Some(env[1].id)
  /\ log[1][1].d.commands = Some(<<"echo hi", "ls">>)
  /\ log[1][1].d.script = None
  /\ log[1][1].d.directory = None

\* ------------------------------------------------------------ C14
\* C14: the execute request is the first message a session sends: every
\* input message on a stream comes after an execute request on it.
C14_ExecuteFirst ==
  \A s \in Sessions :
    \A i \in DOMAIN log[s] :
      log[s][i].k = "input" => \E j \in 1..(i - 1) : log[s][j].k = "execute"

\* ------------------------------------------------------------ C15
CloseThenHalfClose(code) == << Fire("close", code), [k |-> "complete", d |-> <<>>] >>

\* C15: a close of a session, local or by an exit code, leaves exitCode equal
\* to the code (absent for a local close) and adds to the session's history
\* the close event with that code and then the half-close, in this order.
C15_CloseFiresThenHalfCloses ==
  [][\A s \in Sessions :
       /\ (lastOp'.op = "close" /\ lastOp'.on = PsChild(s)) =>
            /\ ps'[s].exitCode = None
            /\ log'[s] = log[s] \o CloseThenHalfClose(None)
       /\ (lastOp'.op = "onMessage" /\ lastOp'.on = PsChild(s)) =>
            LET msg == log'[s][Len(log[s]) + 1].d
                n == Len(log'[s])
            IN msg.exitCode # None =>
                 /\ ps'[s].exitCode = msg.exitCode
                 /\ n >= Len(log[s]) + 3
                 /\ SubSeq(log'[s], n - 1, n) = CloseThenHalfClose(msg.exitCode)
                 /\ Len(SelectSeq(SubSeq(log'[s], Len(log[s]) + 1, n),
                                  LAMBDA x : x.k \in {"close", "complete"})) = 2
    ]_vars

\* A running session was closed locally, and another by exit code 1.
C15_Witness ==
  \/ /\ lastOp = [op |-> "close", on |-> PsChild(1), res |-> ""]
     /\ ps[1].initialized
     /\ ps[1].exitCode = None
     /\ Len(log[1]) = 3
     /\ SubSeq(log[1], 2, 3) = CloseThenHalfClose(None)
  \/ /\ lastOp = [op |-> "onMessage", on |-> PsChild(1), res |-> ""]
     /\ ps[1].initialized
     /\ ps[1].exitCode = Some(1)
     /\ Len(log[1]) = 4
     /\ SubSeq(log[1], 3, 4) = CloseThenHalfClose(Some(1))

\* ------------------------------------------------------------ C16
\* C16: the Channel is closed at most once: transport.close() is called at
\* most one time over the runner's lifetime.
C16_ChannelClosedOnce == closes <= 1

\* ------------------------------------------------------------ C17
\* C17: a stream error on a session raises the close event with no code and
\* does not leave the callback as an unhandled fault.
C17_StreamErrorCloses ==
  \A s \in Sessions :
    (lastOp.op = "onError" /\ lastOp.on = PsChild(s)) =>
      /\ lastOp.res # "Unhandled"
      /\ Of(s, {"close"}) = << Fire("close", None) >>

\* ------------------------------------------------------------ C18
\* C18: at the end of construction a session with a spec that is no tty has
\* sent exactly its execute request and nothing else; a session with a tty
\* spec, or with no spec, has sent nothing.
C18_ConstructionSends ==
  \A s \in Sessions :
    /\ (lastOp.op = "new GrpcRunnerProgramSession" /\ lastOp.on = PsChild(s) /\ lastOp.res = "") =>
         /\ ps[s].opts # None
         /\ IF ps[s].opts[1].tty = Some(TRUE)
            THEN log[s] = <<>> /\ ~ps[s].initialized
            ELSE /\ log[s] = << [k |-> "execute", d |-> runOptionsToExecuteRequest(ps[s].opts[1])] >>
                 /\ ps[s].initialized
    /\ (lastOp.op = "createProgramSession" /\ lastOp.on = PsChild(s)) =>
         ps[s].opts = None /\ log[s] = <<>> /\ ~ps[s].initialized

\* One session was constructed with a tty spec, another with a spec that is
\* no tty.
C18_Witness ==
  /\ lastOp = [op |-> "new GrpcRunnerProgramSession", on |-> PsChild(2), res |-> ""]
  /\ ps[1].opts # None /\ ps[1].opts[1].tty = Some(TRUE) /\ log[1] = <<>>
  /\ ps[2].opts # None /\ ps[2].opts[1].tty = Some(FALSE) /\ Len(log[2]) = 1

\* ------------------------------------------------------------ C19
\* C19: open() on a session constructed with a tty spec performs init: after
\* it the session is initialized and has sent its execute request.
C19_OpenInitializes ==
  \A s \in Sessions :
    (/\ lastOp.op = "open" /\ lastOp.on = PsChild(s)
     /\ ps[s].opts # None /\ ps[s].opts[1].tty = Some(TRUE)
     /\ ~WrongEnvironment(ps[s].opts[1])) =>
      ps[s].initialized /\ Count(s, "execute") = 1

\* ------------------------------------------------------------ C20
\* C20: run() without run options on a session that has none fails with
\* "No run options!", sends nothing and leaves the session un-initialized.
C20_NoRunOptions ==
  [][\A s \in Sessions :
       (/\ lastOp'.op = "run" /\ lastOp'.on = PsChild(s)
        /\ ps[s].opts = None /\ ps'[s].opts = None) =>
         /\ lastOp'.res = "NoRunOptions"
         /\ log'[s] = log[s]
         /\ ~ps'[s].initialized
         /\ ps'[s] = ps[s]
    ]_vars

\* run() without run options failed, after the session had received output.
C20_Witness ==
  /\ lastOp = [op |-> "run", on |-> PsChild(1), res |-> "NoRunOptions"]
  /\ ps[1].opts = None
  /\ ~ps[1].initialized
  /\ Len(log[1]) > 0
  /\ Count(1, "execute") = 0

\* ------------------------------------------------------------ C21
\* C21: a run whose options name an environment that is no gRPC environment
\* fails with the wrong-environment error, sends nothing, and leaves the
\* session as it was (not initialized, without stored options).
C21_WrongEnvironmentLeavesSession ==
  [][\A s \in Sessions :
       (/\ ops' = ops + 1
        /\ lastOp' = [op |-> "run", on |-> PsChild(s), res |-> "WrongEnvironment"]) =>
         /\ log'[s] = log[s]
         /\ ps'[s] = ps[s]
    ]_vars

\* ------------------------------------------------------------ C22
\* C22: once the remote has completed the stream of a session, the session's
\* disposed flag is true.
C22_DisposedAfterCompletion ==
  \A s \in Sessions : remote[s] = "completed" => ps[s].isDisposed

\* ------------------------------------------------------------ C23
\* C23: once a session has been closed or disposed (half-close sent, close
\* event raised, or stream completed by the remote), no step sends an execute
\* request on it.
C23_NoExecuteAfterEnd ==
  [][\A s \in Sessions : Ended(s) => CountAfter(s, "execute") = Count(s, "execute")]_vars

\* ------------------------------------------------------------ C24
\* C24: a rejected DeleteSession does not keep GrpcRunner.dispose() from
\* closing the Channel: once the call has ended and none of its child
\* disposals is unanswered, the Channel has been closed.
C24_FailedDeleteStillCloses ==
  (rd.pc \in {"done", "failed"} /\ rd.waiting = {}) => closes > 0

\* ------------------------------------------------------------ C25
\* A step that is a call of GrpcRunner.dispose().
RunnerDisposeCalled ==
  ops' = ops + 1 /\ lastOp'.op = "dispose" /\ lastOp'.on = Runner

\* C25: a call of GrpcRunner.dispose() starts, within the call and before it
\* waits for anything, the disposal of every registered child that has not
\* been reclaimed, once each: one half-close on each such session, one
\* DeleteSession for each such environment, and nothing for any other child.
C25_DisposeStartsEveryChild ==
  [][RunnerDisposeCalled =>
       /\ \A s \in Sessions :
            IF PsChild(s) \in Range(children) /\ ps[s].state = "live"
            THEN /\ log'[s] = Append(log[s], [k |-> "complete", d |-> <<>>])
                 /\ PsChild(s) \in rd'.waiting
            ELSE /\ log'[s] = log[s]
                 /\ PsChild(s) \notin rd'.waiting
       /\ \A e \in Envs :
            EnvChild(e) \in rd'.waiting <=>
              (EnvChild(e) \in Range(children) /\ env[e].state = "live")
    ]_vars

\* GrpcRunner.dispose() was called with a session and an environment
\* registered: both disposals are under way, neither has completed.
C25_Witness ==
  /\ lastOp = [op |-> "dispose", on |-> Runner, res |-> ""]
  /\ rd = [pc |-> "awaiting", waiting |-> {PsChild(1), EnvChild(1)}]
  /\ log[1] = << [k |-> "complete", d |-> <<>>] >>
  /\ closes = 0

\* ------------------------------------------------------------ C26
\* Every half-close is acknowledged and every DeleteSession is answered.
SpecFair == Spec /\ WF_vars(SettleSession) /\ WF_vars(SettleEnvironment)

AskedToDispose(c) ==
  IF c.t = "ps" THEN Count(c.i, "complete") > 0
  ELSE \/ c \in rd.waiting
       \/ delUser[c.i] > 0
       \/ env[c.i].id \notin daemon.sessions

\* C27: whenever the Channel is closed, every registered child that has not
\* been reclaimed has been asked to dispose.
C27_ClosedOnlyAfterAsking ==
  closes > 0 => \A c \in Range(children) : Deref(c) => AskedToDispose(c)

\* ------------------------------------------------------------ C28
\* C28: the registry has one entry for each environment whose creation
\* succeeded and none for any other; the id of a registered environment is
\* the id the daemon handed out for it; a successful createEnvironment
\* appends the new environment, whose id is the one the daemon returned; a
\* failed one leaves the registry as it was; no step removes an entry.
C28_RegistryMatchesCreated ==
  [][/\ IsPrefix(children, children')
     /\ \A e \in Envs :
          /\ EnvChild(e) \in Range(children') <=> env'[e].state \in {"live", "reclaimed"}
          /\ Len(SelectSeq(children', LAMBDA c : c = EnvChild(e))) <= 1
          /\ EnvChild(e) \in Range(children') =>
               /\ getSessionId(e)' \in 1..(daemon'.nextId - 1)
               /\ \A x \in Envs : (x # e /\ EnvChild(x) \in Range(children')) =>
                                   getSessionId(x)' # getSessionId(e)'
          /\ lastOp' = [op |-> "createEnvironment", on |-> EnvChild(e), res |-> "ok"] =>
               /\ children' = Append(children, EnvChild(e))
               /\ getSessionId(e)' = daemon.nextId
               /\ getSessionId(e)' \in daemon'.sessions
          /\ (lastOp'.op = "createEnvironment" /\ lastOp'.on = EnvChild(e)
              /\ lastOp'.res # "ok") => children' = children
    ]_vars

\* An environment was created after a session: it is registered behind the
\* session, under the id the daemon created.
C28_Witness ==
  /\ lastOp = [op |-> "createEnvironment", on |-> EnvChild(1), res |-> "ok"]
  /\ children = << PsChild(1), EnvChild(1) >>
  /\ env[1].state = "live"
  /\ env[1].id \in daemon.sessions

\* ------------------------------------------------------------ C29
\* C29: createProgramSession opens one stream, sends nothing on it and
\* appends the session to the registry; no call on a session and no callback
\* of its stream opens another stream.
C29_OneStreamPerSession ==
  [][\A s \in Sessions :
       /\ (ops' = ops + 1 /\ lastOp'.op = "createProgramSession" /\ lastOp'.on = PsChild(s)) =>
            /\ streams' = streams + 1
            /\ ps[s].state = "absent" /\ ps'[s].state = "live"
            /\ log'[s] = <<>>
            /\ children' = Append(children, PsChild(s))
       /\ (ops' = ops + 1 /\ lastOp'.on = PsChild(s)
           /\ lastOp'.op \notin {"createProgramSession", "new GrpcRunnerProgramSession"}) =>
            streams' = streams
    ]_vars

\* Two sessions were created and the first has sent its execute request: two
\* streams are open.
C29_Witness ==
  /\ streams = 2
  /\ children = << PsChild(1), PsChild(2) >>
  /\ Count(1, "execute") = 1
  /\ log[2] = <<>>
  /\ lastOp.op = "run"

\* ------------------------------------------------------------ C30
\* What happens on one session: a message with or without an exit code, the
\* stream's completion or error, close, dispose, run, handleInput, open.
SessionEvents ==
  {"onMessage", "onComplete", "onError", "close", "dispose", "dispose(false)",
   "run", "handleInput", "open"}

\* C30: an event on one session, failed calls included, leaves every other
\* session's fields and history, every environment, the registry, the daemon's
\* sessions and the Channel as they were.
C30_SiblingsUntouched ==
  [][\A s \in Sessions :
       (ops' = ops + 1 /\ lastOp'.on = PsChild(s) /\ lastOp'.op \in SessionEvents) =>
         /\ \A t \in Sessions \ {s} :
              ps'[t] = ps[t] /\ log'[t] = log[t] /\ remote'[t] = remote[t]
         /\ env' = env
         /\ children' = children
         /\ daemon' = daemon
         /\ closes' = closes
         /\ streams' = streams
    ]_vars

\* A session received exit code 1 while its sibling, which had sent its
\* execute request, stayed as it was.
C30_Witness ==
  /\ lastOp = [op |-> "onMessage", on |-> PsChild(2), res |-> ""]
  /\ ps[2].exitCode = Some(1)
  /\ Live(1)
  /\ ps[1].initialized
  /\ ps[1].exitCode = None
  /\ Len(log[1]) = 1
  /\ log[1][1].k = "execute"
  /\ closes = 0

\* ------------------------------------------------------------ C31, C32
\* A running session under any interleaving of handleInput calls with
\* messages of the remote.  Calls and messages in one run:
MaxIoSteps == 4

\* After createProgramSession() and run(BaseOpts) on the session.
IoInit ==
  LET b == init(Bundle(NewSession(None), <<>>), Some(BaseOpts))
  IN /\ ps = [s \in Sessions |-> IF s = 1 THEN b.p ELSE AbsentSession]
     /\ remote = [s \in Sessions |-> IF s = 1 THEN "open" ELSE "none"]
     /\ log = [s \in Sessions |-> IF s = 1 THEN b.l ELSE <<>>]
     /\ env = [e \in Envs |-> [state |-> "absent", id |-> 0]]
     /\ children = << PsChild(1) >>
     /\ closes = 0
     /\ streams = 1
     /\ daemon = [sessions |-> {}, nextId |-> 1]
     /\ delUser = [e \in Envs |-> 0]
     /\ rd = [pc |-> "idle", waiting |-> {}]
     /\ lastOp = [op |-> "run", on |-> PsChild(1), res |-> b.err]
     /\ ops = 0
     /\ kernel = NoKernel

IoStep(op, on, res) ==
  /\ ops < MaxIoSteps
  /\ ops' = ops + 1
  /\ lastOp' = [op |-> op, on |-> on, res |-> res]

\* handleInput(data); the call itself is put on record in front of what it does
IoHandleInput ==
  \E s \in Sessions, data \in Inputs :
    LET called == Append(log[s], [k |-> "handleInput", d |-> data])
        b == handleInput(Bundle(ps[s], called), data)
    IN /\ Live(s)
       /\ IoStep("handleInput", PsChild(s), b.err)
       /\ Put(s, b)
       /\ UNCHANGED <<remote, env, children, closes, streams, daemon, delUser, rd, kernel>>

\* responses.onMessage
IoOnMessage ==
  \E s \in Sessions, msg \in Responses :
    /\ Live(s)
    /\ remote[s] = "open"
    /\ IoStep("onMessage", PsChild(s), "")
    /\ Put(s, onMessage(Bundle(ps[s], log[s]), msg))
    /\ UNCHANGED <<remote, env, children, closes, streams, daemon, delUser, rd, kernel>>

IoNext == IoHandleInput \/ IoOnMessage

SpecIO == IoInit /\ [][IoNext]_vars

RECURSIVE RawOf(_)
\* The raw events of a sequence of received messages, message by message.
RawOf(msgs) ==
  IF msgs = <<>> THEN <<>> ELSE C10_Expected(Head(msgs).d) \o RawOf(Tail(msgs))

\* No exit code was received and no close event raised before position i.
LiveBefore(s, i) == \A j \in 1..(i - 1) : log[s][j].k # "close"

\* C31: every handleInput call on a live session has sent one input message,
\* the encoding of its data, before anything else happened, and every input
\* message sent is the one of the call just before it, so the messages go out
\* in call order; the raw events raised are those of the received messages,
\* in the order of arrival, whatever calls lie between them.
C31_OrderKept ==
  \A s \in Sessions :
    /\ \A i \in DOMAIN log[s] :
         /\ (log[s][i].k = "handleInput" /\ LiveBefore(s, i)) =>
              /\ i < Len(log[s])
              /\ log[s][i + 1] = [k |-> "input", d |-> Utf8Encode(log[s][i].d)]
         /\ log[s][i].k = "input" =>
              /\ i > 1
              /\ log[s][i - 1].k = "handleInput"
              /\ log[s][i].d = Utf8Encode(log[s][i - 1].d)
    /\ Raw(log[s]) = RawOf(Of(s, {"recv"}))

\* Input 'a', then output 'hi', then input U+00E9: two input messages in call
\* order around the raw-stdout event.
C31_Witness ==
  /\ Len(log[1]) = 8
  /\ SelectSeq(log[1], LAMBDA x : x.k \in {"input", "stdoutRaw"}) =
       << [k |-> "input", d |-> <<97>>],
          [k |-> "stdoutRaw", d |-> <<104, 105>>],
          [k |-> "input", d |-> <<195, 169>>] >>
  /\ ps[1].exitCode = None

\* The decoded events a sequence of raw events gives rise to.
Decoded(raw) ==
  [i \in DOMAIN raw |->
     [k |-> IF raw[i].k = "stdoutRaw" THEN "didWrite" ELSE "didErr",
      d |-> Utf8Decode(raw[i].d)]]

\* C32: the decoded events are the raw stdout and stderr events decoded, one
\* for one and in the same order, each raised right after its raw event; the
\* raw events are those of the messages, unchanged.
C32_DecodedMirrorsRaw ==
  \A s \in Sessions :
    /\ Of(s, {"didWrite", "didErr"}) = Decoded(Of(s, {"stdoutRaw", "stderrRaw"}))
    /\ \A i \in DOMAIN log[s] :
         /\ log[s][i].k \in {"stdoutRaw", "stderrRaw"} =>
              i < Len(log[s]) /\ log[s][i + 1].k \in {"didWrite", "didErr"}
         /\ log[s][i].k \in {"didWrite", "didErr"} =>
              i > 1 /\ log[s][i - 1].k \in {"stdoutRaw", "stderrRaw"}
    /\ Raw(log[s]) = RawOf(Of(s, {"recv"}))

\* One message with stdout and stderr, then one with stderr only.
C32_Witness ==
  /\ Of(1, {"stdoutRaw", "stderrRaw", "didWrite", "didErr"}) =
       << [k |-> "stdoutRaw", d |-> <<104, 105>>], [k |-> "didWrite", d |-> <<104, 105>>],
          [k |-> "stderrRaw", d |-> <<104, 105>>], [k |-> "didErr", d |-> <<104, 105>>],
          [k |-> "stderrRaw", d |-> <<104, 105>>], [k |-> "didErr", d |-> <<104, 105>>] >>
  /\ Len(Of(1, {"recv"})) = 2

\* ------------------------------------------------------------ C33
\* C33: once the Channel has been closed, no child the runner created issues
\* anything over it: no step sends an execute request, an input message or a
\* half-close on a registered session, or a DeleteSession for a registered
\* environment.
C33_NothingAfterChannelClose ==
  [][closes > 0 =>
       /\ \A s \in Sessions :
            PsChild(s) \in Range(children) =>
              Len(SelectSeq(log'[s], LAMBDA x : x.k \in {"execute", "input", "complete"}))
                = Len(Of(s, {"execute", "input", "complete"}))
       /\ \A e \in Envs :
            EnvChild(e) \in Range(children) =>
              /\ delUser'[e] <= delUser[e]
              /\ EnvChild(e) \in rd'.waiting => EnvChild(e) \in rd.waiting
    ]_vars

\* ------------------------------------------------------------ the Kernel
\* Kernel._executeAll over cells that run through the runner (a runner is
\* there, no pseudoterminal experiment, the cell's language is sh or bash).
\* Messages of the daemon, cancellations and task-process ends in one run:
MaxKernelEvents == 2

\* ConfirmationItems; "undefined" is a quick pick dismissed without a choice.
Answers == {"Yes", "No", "Skip Prompt and run all", "Cancel", "undefined"}

\* What the daemon sends while a cell runs: output on one of the two streams,
\* or the exit code.
KernelResponses ==
  { m \in Responses :
      \/ m.stdoutData # <<>> /\ m.stderrData = <<>> /\ m.exitCode = None
      \/ m.stdoutData = <<>> /\ m.stderrData # <<>> /\ m.exitCode = None
      \/ m.stdoutData = <<>> /\ m.stderrData = <<>> /\ m.exitCode # None }

\* `if (code)`, `!!e.exitCode` for a number or undefined
Truthy(code) == code # None /\ code[1] # 0

\* resolve(value) of the promise _doExecuteCell awaits: the first call settles it
resolve(k, by, code, value) ==
  IF k.resolved # None THEN k
  ELSE [k EXCEPT !.resolved = Some([by |-> by, code |-> code, value |-> value])]

\* program.onDidClose((code) => { if(code) resolve(false); resolve(true) })
onDidClose(k, code) ==
  LET k1 == IF Truthy(code) THEN resolve(k, "onDidClose", code, FALSE) ELSE k
  IN resolve(k1, "onDidClose", code, TRUE)

\* tasks.onDidEndTaskProcess(e => ...) for the cell's own task
onDidEndTaskProcess(k, exitCode) ==
  IF exitCode = None THEN k
  ELSE resolve(k, "onDidEndTaskProcess", exitCode, Truthy(exitCode))

\* The listeners of a cell that leave out the close event
Subscriptions_NoClose(interactive) ==
  IF interactive THEN {} ELSE {"stdoutRaw", "stderrRaw"}

\* The events of the session the Kernel listens to, by the cell's `interactive`
Subscriptions(interactive) ==
  IF interactive THEN {"close"} ELSE {"stdoutRaw", "stderrRaw", "close"}

\* One event of the session, as the Kernel's listeners take it
Handle(k, ev) ==
  IF ev.k \notin k.subscribed THEN k
  ELSE LET k1 == [k EXCEPT !.seen = Append(@, ev)]
       IN IF ev.k = "close" THEN onDidClose(k1, ev.d) ELSE k1

RECURSIVE Deliver(_, _)
Deliver(k, evs) ==
  IF evs = <<>> THEN k ELSE Deliver(Handle(k, Head(evs)), Tail(evs))

\* The events a call or callback raised on the session
NewEvents(old, new) == Raw(SubSeq(new, Len(old) + 1, Len(new)))

\* The quick pick's answer that lets 'No' run the cell
AfterAnswer_NoRuns(k, answer) ==
  LET k1 == [k EXCEPT !.answers = Append(@, [cell |-> k.i, answer |-> answer])]
  IN IF answer = "Cancel"
     THEN [k1 EXCEPT !.reported = Some(k1.cellsExecuted), !.pc = "done"]
     ELSE [k1 EXCEPT !.showConfirmPrompt = IF answer = "Skip Prompt and run all" THEN FALSE ELSE @,
                     !.pc = "exec"]

\* _executeAll after the quick pick's answer: continue, stop asking, or return
AfterAnswer(k, answer) ==
  LET k1 == [k EXCEPT !.answers = Append(@, [cell |-> k.i, answer |-> answer])]
  IN IF answer = "No" THEN [k1 EXCEPT !.i = @ + 1]
     ELSE IF answer = "Cancel"
     THEN [k1 EXCEPT !.reported = Some(k1.cellsExecuted), !.pc = "done"]
     ELSE [k1 EXCEPT !.showConfirmPrompt = IF answer = "Skip Prompt and run all" THEN FALSE ELSE @,
                     !.pc = "exec"]

KernelCell(c) == [t |-> "cell", i |-> c]

\* _executeAll(cells) has been called on a new runner.
KernelInit ==
  \E n \in 1..MaxSessions, extra \in {0, 1} :
    \E cells \in [1..n -> [interactive : BOOLEAN]] :
      /\ ps = [s \in Sessions |-> AbsentSession]
      /\ remote = [s \in Sessions |-> "none"]
      /\ log = [s \in Sessions |-> <<>>]
      /\ env = [e \in Envs |-> [state |-> "absent", id |-> 0]]
      /\ children = <<>>
      /\ closes = 0
      /\ streams = 0
      /\ daemon = [sessions |-> {}, nextId |-> 1]
      /\ delUser = [e \in Envs |-> 0]
      /\ rd = [pc |-> "idle", waiting |-> {}]
      /\ lastOp = [op |-> "_executeAll", on |-> Runner, res |-> ""]
      /\ ops = 0
      /\ kernel = [pc |-> "loop", cells |-> cells, total |-> n + extra, i |-> 1,
                   showConfirmPrompt |-> (extra = 0 /\ n > 1),
                   cellsExecuted |-> 0, answers |-> <<>>, ran |-> <<>>,
                   reported |-> None, cur |-> 0, prog |-> 0,
                   subscribed |-> {}, seen |-> <<>>, resolved |-> None]

\* A message, a cancellation or a task-process end while a cell runs.
KernelEvent(op, on, res) ==
  /\ ops < MaxKernelEvents
  /\ ops' = ops + 1
  /\ lastOp' = [op |-> op, on |-> on, res |-> res]

\* window.showQuickPick(...) is answered
KernelAsk ==
  \E answer \in Answers :
    /\ kernel.pc = "loop"
    /\ kernel.i <= Len(kernel.cells)
    /\ kernel.showConfirmPrompt
    /\ kernel' = AfterAnswer(kernel, answer)
    /\ Then("showQuickPick", KernelCell(kernel.i), answer)
    /\ UNCHANGED <<ps, remote, log, env, children, closes, streams, daemon, delUser, rd>>

\* _doExecuteCell(cell) up to its first wait: runner.createProgramSession();
\* for a cell that is not interactive the listeners and program.run(...) in
\* the same turn, for an interactive one tasks.executeTask(...) is awaited.
KernelBegin ==
  \E s \in Sessions :
    LET c == kernel.i
        interactive == kernel.cells[c].interactive
        created == Constructed(None)
        b == IF interactive THEN created ELSE init(created, Some(BaseOpts))
    IN /\ \/ kernel.pc = "exec"
          \/ kernel.pc = "loop" /\ c <= Len(kernel.cells) /\ ~kernel.showConfirmPrompt
       /\ FreeSession(s)
       /\ OpenStream
       /\ Put(s, b)
       /\ remote' = [remote EXCEPT ![s] = "open"]
       /\ registerChild(PsChild(s))
       /\ kernel' = [kernel EXCEPT !.pc = IF interactive THEN "task" ELSE "running",
                                   !.cur = c, !.prog = s,
                                   !.subscribed = IF interactive THEN {} ELSE Subscriptions(FALSE),
                                   !.seen = <<>>, !.resolved = None]
       /\ Then("_doExecuteCell", PsChild(s), b.err)
       /\ UNCHANGED <<env, closes, daemon, delUser, rd>>

\* tasks.executeTask(...) has returned: the cancellation, task-process-end and
\* onDidClose listeners, then program.run(...)
KernelTaskStarted ==
  LET s == kernel.prog
      b == init(Bundle(ps[s], log[s]), Some(BaseOpts))
  IN /\ kernel.pc = "task"
     /\ Put(s, b)
     /\ kernel' = [kernel EXCEPT !.pc = "running", !.subscribed = Subscriptions(TRUE)]
     /\ Then("executeTask", PsChild(s), b.err)
     /\ UNCHANGED <<remote, env, children, closes, streams, daemon, delUser, rd>>

\* The daemon sends a response for the running cell
KernelOnMessage ==
  \E msg \in KernelResponses :
    LET s == kernel.prog
        b == onMessage(Bundle(ps[s], log[s]), msg)
    IN /\ kernel.pc = "running"
       /\ remote[s] = "open"
       /\ KernelEvent("onMessage", PsChild(s), "")
       /\ Put(s, b)
       /\ kernel' = Deliver(kernel, NewEvents(log[s], b.l))
       /\ UNCHANGED <<remote, env, children, closes, streams, daemon, delUser, rd>>

\* exec.token.onCancellationRequested: program.close(), for an interactive
\* cell through execution.terminate()
KernelCancel ==
  LET s == kernel.prog
      b == close(Bundle(ps[s], log[s]), None)
  IN /\ kernel.pc = "running"
     /\ KernelEvent("cancel", PsChild(s), "")
     /\ Put(s, b)
     /\ kernel' = Deliver(kernel, NewEvents(log[s], b.l))
     /\ UNCHANGED <<remote, env, children, closes, streams, daemon, delUser, rd>>

\* tasks.onDidEndTaskProcess fires for the cell's task
KernelTaskProcessEnd ==
  \E exitCode \in ExitCodes :
    /\ kernel.pc = "running"
    /\ kernel.cells[kernel.cur].interactive
    /\ KernelEvent("onDidEndTaskProcess", PsChild(kernel.prog), "")
    /\ kernel' = onDidEndTaskProcess(kernel, exitCode)
    /\ UNCHANGED <<ps, remote, log, env, children, closes, streams, daemon, delUser, rd>>

\* The promise is settled: exec.end(successfulCellExecution), cellsExecuted++
KernelEnd ==
  /\ kernel.pc = "running"
  /\ kernel.resolved # None
  /\ kernel' = [kernel EXCEPT
                  !.ran = Append(@, [cell |-> kernel.cur, prog |-> kernel.prog,
                                     success |-> kernel.resolved[1].value,
                                     by |-> kernel.resolved[1].by,
                                     code |-> kernel.resolved[1].code]),
                  !.cellsExecuted = @ + 1,
                  !.i = @ + 1,
                  !.pc = "loop"]
  /\ Then("exec.end", KernelCell(kernel.cur), "")
  /\ UNCHANGED <<ps, remote, log, env, children, closes, streams, daemon, delUser, rd>>

\* The loop is over: the telemetry event with cells.executed
KernelFinish ==
  /\ kernel.pc = "loop"
  /\ kernel.i > Len(kernel.cells)
  /\ kernel' = [kernel EXCEPT !.reported = Some(kernel.cellsExecuted), !.pc = "done"]
  /\ Then("_executeAll", Runner, "done")
  /\ UNCHANGED <<ps, remote, log, env, children, closes, streams, daemon, delUser, rd>>

KernelNext ==
  \/ KernelAsk
  \/ KernelBegin
  \/ KernelTaskStarted
  \/ KernelOnMessage
  \/ KernelCancel
  \/ KernelTaskProcessEnd
  \/ KernelEnd
  \/ KernelFinish

SpecKernel == KernelInit /\ [][KernelNext]_vars

\* ------------------------------------------------------------ C34
\* C34: a cell is reported as successful only if the event that settled its
\* execution did not carry a non-zero exit code, whichever of the close event
\* and the task-process end came first.
C34_SuccessOnlyWithoutFailure ==
  \A j \in DOMAIN kernel.ran :
    kernel.ran[j].success => ~Truthy(kernel.ran[j].code)

\* ------------------------------------------------------------ C35
\* The events the session of the cell in hand raised after its execute request.
AfterExecute(s) ==
  LET sent == { i \in DOMAIN log[s] : log[s][i].k = "execute" }
      first == CHOOSE i \in sent : \A j \in sent : i <= j
  IN Raw(SubSeq(log[s], first + 1, Len(log[s])))

\* program.run has been called for the cell in hand.
RunCalled == kernel.prog # 0 /\ kernel.pc # "task"

\* C35 as stated: when program.run is called the Kernel listens to raw stdout,
\* raw stderr and close of the session.
C35_SubscribedBeforeRun ==
  RunCalled => {"stdoutRaw", "stderrRaw", "close"} \subseteq kernel.subscribed

\* C35, amended: when program.run is called the Kernel listens to the close
\* event and, for a cell that is not interactive, to raw stdout and raw
\* stderr; every such event the session raises after its execute request has
\* reached the Kernel's listeners, in order.
C35_EventsReachHandlers ==
  RunCalled =>
    LET s == kernel.prog
        kinds == IF kernel.cells[kernel.cur].interactive THEN {"close"}
                 ELSE {"stdoutRaw", "stderrRaw", "close"}
    IN /\ Count(s, "execute") = 1
       /\ kinds \subseteq kernel.subscribed
       /\ kernel.seen = SelectSeq(AfterExecute(s), LAMBDA x : x.k \in kinds)

\* A cell that is not interactive printed 'hi' and exited with code 0: both
\* events reached the Kernel.
C35_Witness ==
  /\ kernel.pc = "running"
  /\ ~kernel.cells[kernel.cur].interactive
  /\ kernel.seen = << [k |-> "stdoutRaw", d |-> <<104, 105>>], [k |-> "close", d |-> Some(0)] >>
  /\ kernel.resolved # None
  /\ kernel.resolved[1].value

\* ------------------------------------------------------------ C36
AnswerOf(c) ==
  LET given == { j \in DOMAIN kernel.answers : kernel.answers[j].cell = c }
  IN IF given = {} THEN "none" ELSE kernel.answers[CHOOSE j \in given : TRUE].answer

\* An answer before cell c (at or before it, for atOrBefore) was a.
AnsweredBefore(c, a, atOrBefore) ==
  \E j \in DOMAIN kernel.answers :
    /\ kernel.answers[j].answer = a
    /\ kernel.answers[j].cell < c \/ (atOrBefore /\ kernel.answers[j].cell = c)

RanCells == { kernel.ran[j].cell : j \in DOMAIN kernel.ran }

\* C36: cells run one at a time in the order given; when all code cells of a
\* notebook with more than one are run, each cell is asked about until 'Skip
\* Prompt and run all' or 'Cancel'; a cell answered 'No' is not run and the
\* next is asked about; after 'Cancel' neither that cell nor a later one is
\* run or asked about; every other cell is run; the count reported is the
\* number of cells run.
C36_ExecuteAllInOrder ==
  LET n == Len(kernel.cells)
      asks == kernel.total = n /\ n > 1
  IN /\ \A j \in 1..(Len(kernel.ran) - 1) : kernel.ran[j].cell < kernel.ran[j + 1].cell
     /\ \A j \in 1..(Len(kernel.answers) - 1) :
          kernel.answers[j].cell < kernel.answers[j + 1].cell
     /\ kernel.pc \in {"task", "running"} => \A c \in RanCells : c < kernel.cur
     /\ \A c \in RanCells : AnswerOf(c) \notin {"No", "Cancel"}
     /\ kernel.cellsExecuted = Len(kernel.ran)
     /\ kernel.reported # None =>
          kernel.pc = "done" /\ kernel.reported = Some(Cardinality(RanCells))
     /\ kernel.pc = "done" =>
          /\ kernel.reported # None
          /\ \A c \in 1..n :
               /\ AnswerOf(c) # "none" <=>
                    /\ asks
                    /\ ~AnsweredBefore(c, "Skip Prompt and run all", FALSE)
                    /\ ~AnsweredBefore(c, "Cancel", FALSE)
               /\ c \in RanCells <=>
                    /\ AnswerOf(c) # "No"
                    /\ ~AnsweredBefore(c, "Cancel", TRUE)

\* Two cells: 'No' for the first, 'Skip Prompt and run all' for the second,
\* which ran; one cell is reported.
C36_Witness ==
  /\ kernel.pc = "done"
  /\ kernel.answers = << [cell |-> 1, answer |-> "No"],
                         [cell |-> 2, answer |-> "Skip Prompt and run all"] >>
  /\ RanCells = {2}
  /\ kernel.reported = Some(1)

====
